---- MODULE Spec2Model ----
(***************************************************************************)
(* A model of the CV-2-04 exercise (src/CV-2-04/combine_masks.py): the     *)
(* ColorMask container, combine_masks, apply_mask, the synthetic hue       *)
(* gradient pipeline and the command-line entry point.                     *)
(*                                                                         *)
(* A Python value is a record with a "kind" field; a numpy array carries   *)
(* its shape and its data (rows of pixels).  A call that raises is a       *)
(* result record whose err.type is the exception's class.                  *)
(***************************************************************************)
EXTENDS Integers, Sequences, FiniteSets, TLC

VARIABLES
    hsv_ranges,     \* ColorMask.hsv_ranges of each ColorMask object
    pc,             \* position of the caller / of the script
    call,           \* the call in progress or just returned: operation and arguments
    ret,            \* the value the call returned (NoValue when it raised)
    err,            \* the exception the call raised (NoErr when it returned)
    image_bgr,      \* img_bgr / image_bgr: the caller's BGR array
    image_hsv,      \* img_hsv
    combined_mask,  \* combined_mask
    result,         \* result of apply_mask in the pipelines
    argv,           \* the command line: the two options of the parser
    fs,             \* the file system: what each path holds
    trace           \* the pipelines and library calls entered so far, in order

vars == <<hsv_ranges, pc, call, ret, err, image_bgr, image_hsv, combined_mask,
          result, argv, fs, trace>>

-----------------------------------------------------------------------------
(* Bounds of the model *)

\* the most ranges a ColorMask holds in the model
MaxRanges == 2

\* the longest list of ColorMask handed to combine_masks in the model
MaxMasks == 2

-----------------------------------------------------------------------------
(* Python values *)

None == [kind |-> "None", dtype |-> "object", shape |-> <<>>, data |-> <<>>]

\* np.array([...]) of integers: a 1-d int64 array
IntVec(v) == [kind |-> "ndarray", dtype |-> "int64", shape |-> <<Len(v)>>, data |-> v]

\* np.array([...]) of floats: a 1-d float64 array (integer-valued components)
FloatVec(v) == [kind |-> "ndarray", dtype |-> "float64", shape |-> <<Len(v)>>, data |-> v]

\* a plain Python list, not an ndarray
ListVal(v) == [kind |-> "list", dtype |-> "object", shape |-> <<>>, data |-> v]

\* a uint8 image of `rows` (each a sequence of pixels <<c1, c2, c3>>)
Image3(rows) ==
    [kind |-> "ndarray", dtype |-> "uint8",
     shape |-> <<Len(rows), IF Len(rows) = 0 THEN 0 ELSE Len(rows[1]), 3>>,
     data |-> rows]

\* a uint8 single-channel array of `rows` (each a sequence of numbers)
Image1(rows) ==
    [kind |-> "ndarray", dtype |-> "uint8",
     shape |-> <<Len(rows), IF Len(rows) = 0 THEN 0 ELSE Len(rows[1])>>,
     data |-> rows]

\* ndarray.size: the product of the shape
RECURSIVE Product(_)
Product(s) == IF Len(s) = 0 THEN 1 ELSE Head(s) * Product(Tail(s))

size(a) == Product(a.shape)

\* shape[:2]
Shape2(a) == SubSeq(a.shape, 1, IF Len(a.shape) < 2 THEN Len(a.shape) ELSE 2)

NoErr == [type |-> "none", line |-> 0, shapes |-> <<>>]

\* raise <type> at source line <line>; shapes: the shapes the message reports
Raise(type, line, shapes) == [type |-> type, line |-> line, shapes |-> shapes]

NoValue == [kind |-> "none", dtype |-> "none", shape |-> <<>>, data |-> <<>>]

Ok(v) == [err |-> NoErr, val |-> v]
Fail(e) == [err |-> e, val |-> NoValue]

-----------------------------------------------------------------------------
(* uint8 bit operations, as cv2.bitwise_or / cv2.bitwise_and compute them *)

RECURSIVE BitOr(_, _)
BitOr(a, b) ==
    IF a = 0 THEN b
    ELSE IF b = 0 THEN a
    ELSE 2 * BitOr(a \div 2, b \div 2) + (IF a % 2 = 1 \/ b % 2 = 1 THEN 1 ELSE 0)

RECURSIVE BitAnd(_, _)
BitAnd(a, b) ==
    IF a = 0 \/ b = 0 THEN 0
    ELSE 2 * BitAnd(a \div 2, b \div 2) + (IF a % 2 = 1 /\ b % 2 = 1 THEN 1 ELSE 0)

\* a faulty variant: the upper bound is left out of the range
inRange_exclusive(src, lower, upper) ==
    Image1([r \in 1..src.shape[1] |->
              [c \in 1..src.shape[2] |->
                 IF \A k \in 1..3 : /\ lower.data[k] <= src.data[r][c][k]
                                    /\ src.data[r][c][k] < upper.data[k]
                 THEN 255 ELSE 0]])

\* cv2.inRange(src, lowerb, upperb): 255 where lowerb <= src <= upperb in every
\* channel, 0 elsewhere; one channel, the rows and columns of src
inRange(src, lower, upper) ==
    Image1([r \in 1..src.shape[1] |->
              [c \in 1..src.shape[2] |->
                 IF \A k \in 1..3 : /\ lower.data[k] <= src.data[r][c][k]
                                    /\ src.data[r][c][k] <= upper.data[k]
                 THEN 255 ELSE 0]])

\* cv2.bitwise_or(src1, src2) of two single-channel arrays of one shape
bitwise_or(a, b) ==
    Image1([r \in 1..a.shape[1] |->
              [c \in 1..a.shape[2] |-> BitOr(a.data[r][c], b.data[r][c])]])

-----------------------------------------------------------------------------
(* ColorMask *)

\* a faulty variant: the shape of the bounds is not checked
add_hsv_range_noshape(ranges, hsv_range) ==
    IF Len(hsv_range) # 2
    THEN [err |-> Raise("ValueError", 71, <<>>), ranges |-> ranges]
    ELSE IF \E i \in 1..2 : hsv_range[i].kind # "ndarray"
    THEN [err |-> Raise("TypeError", 74, <<>>), ranges |-> ranges]
    ELSE [err |-> NoErr, ranges |-> Append(ranges, hsv_range)]

\* a faulty variant: the pair is stored before it is checked
add_hsv_range_partial(ranges, hsv_range) ==
    IF Len(hsv_range) # 2
    THEN [err |-> Raise("ValueError", 71, <<>>), ranges |-> Append(ranges, hsv_range)]
    ELSE IF \E i \in 1..2 : hsv_range[i].kind # "ndarray" \/ hsv_range[i].shape # <<3>>
    THEN [err |-> Raise("ValueError", 76, <<>>), ranges |-> Append(ranges, hsv_range)]
    ELSE [err |-> NoErr, ranges |-> Append(ranges, hsv_range)]

\* ColorMask.add_hsv_range: the exception raised (or NoErr) and the list after
add_hsv_range(ranges, hsv_range) ==
    IF Len(hsv_range) # 2
    THEN [err |-> Raise("ValueError", 71, <<>>), ranges |-> ranges]
    ELSE LET bad == {i \in 1..2 : \/ hsv_range[i].kind # "ndarray"
                                  \/ hsv_range[i].shape # <<3>>}
         IN  IF bad = {}
             THEN [err |-> NoErr, ranges |-> Append(ranges, hsv_range)]
             ELSE LET i == CHOOSE j \in bad : \A k \in bad : j <= k
                  IN  IF hsv_range[i].kind # "ndarray"
                      THEN [err |-> Raise("TypeError", 74, <<>>), ranges |-> ranges]
                      ELSE [err |-> Raise("ValueError", 76, <<>>), ranges |-> ranges]

\* ColorMask.__iadd__: add_hsv_range, then return self
iadd(ranges, hsv_range) == add_hsv_range(ranges, hsv_range)

\* the fold of lines 100-102: masks[0] or-ed with each of masks[1:] in order
RECURSIVE OrFold(_, _)
OrFold(acc, masks) ==
    IF Len(masks) = 0 THEN acc
    ELSE OrFold(bitwise_or(acc, Head(masks)), Tail(masks))

\* a faulty variant: no ranges give an all-zero mask instead of an error
create_mask_zero(ranges, img) ==
    IF Len(ranges) = 0
    THEN Ok(Image1([r \in 1..img.shape[1] |-> [c \in 1..img.shape[2] |-> 0]]))
    ELSE LET masks == [i \in 1..Len(ranges) |-> inRange(img, ranges[i][1], ranges[i][2])]
         IN  Ok(OrFold(masks[1], Tail(masks)))

\* ColorMask.create_mask
create_mask(ranges, img) ==
    IF Len(ranges) = 0
    THEN Fail(Raise("ValueError", 97, <<>>))
    ELSE LET masks == [i \in 1..Len(ranges) |-> inRange(img, ranges[i][1], ranges[i][2])]
         IN  Ok(OrFold(masks[1], Tail(masks)))

\* the loop of lines 144-145: a create_mask that raises ends combine_masks
RECURSIVE CombineFold(_, _, _)
CombineFold(acc, rest, img) ==
    IF Len(rest) = 0 THEN Ok(acc)
    ELSE LET m == create_mask(Head(rest), img)
         IN  IF m.err # NoErr THEN Fail(m.err)
             ELSE CombineFold(bitwise_or(acc, m.val), Tail(rest), img)

\* a faulty variant: the loop overwrites result_mask instead of or-ing into it
combine_masks_last(masks, img) ==
    IF Len(masks) = 0
    THEN Fail(Raise("ValueError", 141, <<>>))
    ELSE IF \E i \in 1..Len(masks) : Len(masks[i]) = 0
    THEN Fail(Raise("ValueError", 97, <<>>))
    ELSE create_mask(masks[Len(masks)], img)

\* a faulty variant: the loop passes over a ColorMask without ranges
combine_masks_skip(masks, img) ==
    IF Len(masks) = 0
    THEN Fail(Raise("ValueError", 141, <<>>))
    ELSE LET first == create_mask(masks[1], img)
             rest == SelectSeq(Tail(masks), LAMBDA m : Len(m) > 0)
         IN  IF first.err # NoErr THEN Fail(first.err)
             ELSE CombineFold(first.val, rest, img)

\* combine_masks; `masks` is the list of the ColorMasks' hsv_ranges
combine_masks(masks, img) ==
    IF Len(masks) = 0
    THEN Fail(Raise("ValueError", 141, <<>>))
    ELSE LET first == create_mask(masks[1], img)
         IN  IF first.err # NoErr THEN Fail(first.err)
             ELSE CombineFold(first.val, Tail(masks), img)

-----------------------------------------------------------------------------
(* The ColorMask objects and the arguments of the calls *)

\* the ColorMask objects of the program (lines 112 and 123)
MaskNames == {"red", "blue"}

\* the preset bounds of lines 113, 114 and 124
RED_1 == <<IntVec(<<0, 100, 100>>), IntVec(<<10, 255, 255>>)>>
RED_2 == <<IntVec(<<170, 100, 100>>), IntVec(<<180, 255, 255>>)>>
BLUE_1 == <<IntVec(<<100, 100, 100>>), IntVec(<<130, 255, 255>>)>>

\* pairs add_hsv_range is called with: the presets, a pair with lower above
\* upper, a pair of float64 vectors
INVERTED == <<IntVec(<<10, 255, 255>>), IntVec(<<0, 100, 100>>)>>
FLOAT_RED_2 == <<FloatVec(<<170, 100, 100>>), FloatVec(<<180, 255, 255>>)>>

WellFormedRanges == {RED_1, BLUE_1, INVERTED, FLOAT_RED_2}

\* arguments that are not a pair of 3-vectors
MalformedRanges ==
    { <<>>,
      <<IntVec(<<0, 100, 100>>)>>,
      <<IntVec(<<0, 100, 100>>), IntVec(<<10, 255, 255>>), IntVec(<<10, 255, 255>>)>>,
      <<ListVal(<<0, 100, 100>>), IntVec(<<10, 255, 255>>)>>,
      <<IntVec(<<0, 100, 100>>), None>>,
      <<IntVec(<<0, 100>>), IntVec(<<10, 255, 255>>)>>,
      <<IntVec(<<0, 100, 100>>), IntVec(<<10, 255, 255, 0>>)>> }

RangeInputs == WellFormedRanges \cup MalformedRanges

\* HSV images the masks are derived from: pixels on, just inside and just
\* outside the bounds of the ranges, in each component
HsvImages ==
    { Image3(<< << <<0, 100, 100>>, <<10, 255, 255>>, <<11, 255, 255>> >>,
                << <<5, 99, 200>>, <<5, 200, 99>>, <<60, 200, 200>> >> >>),
      Image3(<< << <<100, 100, 100>>, <<130, 255, 255>>,
                   <<131, 255, 255>>, <<175, 200, 200>> >> >>),
      Image3(<< << <<170, 100, 100>> >>, << <<179, 255, 255>> >>,
                << <<169, 255, 255>> >> >>) }

\* lists of ColorMask objects of length 0..n
RECURSIVE MaskLists(_)
MaskLists(n) ==
    IF n = 0 THEN { <<>> }
    ELSE LET shorter == MaskLists(n - 1)
         IN  shorter \cup { Append(s, m) : s \in {t \in shorter : Len(t) = n - 1},
                                           m \in MaskNames }

\* a reference to a ColorMask object
Ref(m) == [kind |-> "ColorMask", dtype |-> "object", shape |-> <<>>, data |-> <<m>>]

NoCall == [op |-> "none", self |-> "none", masks |-> <<>>, hsv_range |-> <<>>,
           image |-> None, mask |-> None, width |-> 0, height |-> 0]

-----------------------------------------------------------------------------
(* The calls on ColorMask objects.  A call records its arguments, what it  *)
(* returned or raised, and the caller then goes on (Return).               *)

IdleRest == /\ image_bgr = None /\ image_hsv = None /\ combined_mask = None
            /\ result = None /\ argv = <<>> /\ fs = <<>> /\ trace = <<>>

InitMask ==
    /\ hsv_ranges = [m \in MaskNames |-> <<>>]
    /\ pc = "idle"
    /\ call = NoCall
    /\ ret = NoValue
    /\ err = NoErr
    /\ IdleRest

PipelineUnchanged ==
    UNCHANGED <<image_bgr, image_hsv, combined_mask, result, argv, fs, trace>>

\* m.add_hsv_range(r)
AddHsvRange(m, r) ==
    LET out == add_hsv_range(hsv_ranges[m], r) IN
    /\ pc = "idle"
    /\ Len(out.ranges) <= MaxRanges
    /\ hsv_ranges' = [hsv_ranges EXCEPT ![m] = out.ranges]
    /\ call' = [NoCall EXCEPT !.op = "add_hsv_range", !.self = m, !.hsv_range = r]
    /\ ret' = IF out.err = NoErr THEN None ELSE NoValue
    /\ err' = out.err
    /\ pc' = "returned"
    /\ PipelineUnchanged

\* m += r
IAdd(m, r) ==
    LET out == iadd(hsv_ranges[m], r) IN
    /\ pc = "idle"
    /\ Len(out.ranges) <= MaxRanges
    /\ hsv_ranges' = [hsv_ranges EXCEPT ![m] = out.ranges]
    /\ call' = [NoCall EXCEPT !.op = "__iadd__", !.self = m, !.hsv_range = r]
    /\ ret' = IF out.err = NoErr THEN Ref(m) ELSE NoValue
    /\ err' = out.err
    /\ pc' = "returned"
    /\ PipelineUnchanged

\* m.create_mask(img)
CreateMask(m, img) ==
    LET out == create_mask(hsv_ranges[m], img) IN
    /\ pc = "idle"
    /\ call' = [NoCall EXCEPT !.op = "create_mask", !.self = m, !.image = img]
    /\ ret' = out.val
    /\ err' = out.err
    /\ pc' = "returned"
    /\ UNCHANGED hsv_ranges
    /\ PipelineUnchanged

\* combine_masks(ms, img), ms a list of ColorMask objects
CombineMasks(ms, img) ==
    LET out == combine_masks([i \in 1..Len(ms) |-> hsv_ranges[ms[i]]], img) IN
    /\ pc = "idle"
    /\ call' = [NoCall EXCEPT !.op = "combine_masks", !.masks = ms, !.image = img]
    /\ ret' = out.val
    /\ err' = out.err
    /\ pc' = "returned"
    /\ UNCHANGED hsv_ranges
    /\ PipelineUnchanged

\* the caller takes the outcome and goes on
Return ==
    /\ pc = "returned"
    /\ pc' = "idle"
    /\ call' = NoCall
    /\ ret' = NoValue
    /\ err' = NoErr
    /\ trace' = <<>>
    /\ UNCHANGED <<hsv_ranges, image_bgr, image_hsv, combined_mask, result, argv, fs>>

NextMask ==
    \/ \E m \in MaskNames, r \in RangeInputs : AddHsvRange(m, r)
    \/ \E m \in MaskNames, r \in RangeInputs : IAdd(m, r)
    \/ \E m \in MaskNames, img \in HsvImages : CreateMask(m, img)
    \/ \E ms \in MaskLists(MaxMasks), img \in HsvImages : CombineMasks(ms, img)
    \/ Return

SpecMask == InitMask /\ [][NextMask]_vars

-----------------------------------------------------------------------------
(* Properties of the ColorMask calls (checked under SpecMask) *)

Returned(op) == pc = "returned" /\ call.op = op

\* pixel px lies within the pair rng, bounds included, in all three components
Within(px, rng) ==
    \A k \in 1..3 : rng[1].data[k] <= px[k] /\ px[k] <= rng[2].data[k]

\* C1: create_mask on a ColorMask holding at least one range returns a mask of
\* the image's height and width in which a pixel is selected (255) exactly
\* when some stored pair contains the pixel in all three components, bounds
\* included, and is 0 otherwise; the mask is the pixel-wise OR of the masks
\* of the ranges taken one at a time.
C1_CreateMaskIsUnionOfInclusiveRanges ==
    (Returned("create_mask") /\ Len(hsv_ranges[call.self]) >= 1) =>
        LET img == call.image
            rs == hsv_ranges[call.self]
        IN  /\ err = NoErr
            /\ ret.kind = "ndarray"
            /\ ret.shape = Shape2(img)
            /\ \A r \in 1..img.shape[1], c \in 1..img.shape[2] :
                 /\ ret.data[r][c] =
                      IF \E i \in 1..Len(rs) : Within(img.data[r][c], rs[i])
                      THEN 255 ELSE 0
                 /\ (ret.data[r][c] # 0) <=>
                      \E i \in 1..Len(rs) :
                          create_mask(<<rs[i]>>, img).val.data[r][c] # 0

\* create_mask returned a mask of two ranges, with a pixel only the second
\* range selects, a pixel on an upper bound selected and a pixel left out
C1_Witness ==
    /\ Returned("create_mask")
    /\ err = NoErr
    /\ Len(hsv_ranges[call.self]) = 2
    /\ \E r \in 1..call.image.shape[1], c \in 1..call.image.shape[2] :
         /\ ~Within(call.image.data[r][c], hsv_ranges[call.self][1])
         /\ Within(call.image.data[r][c], hsv_ranges[call.self][2])
         /\ ret.data[r][c] = 255
    /\ \E r \in 1..call.image.shape[1], c \in 1..call.image.shape[2] :
         /\ call.image.data[r][c] = hsv_ranges[call.self][1][2].data
         /\ ret.data[r][c] = 255
    /\ \E r \in 1..call.image.shape[1], c \in 1..call.image.shape[2] :
         ret.data[r][c] = 0

\* the lists that hold the elements of s in another order
Reorderings(s) ==
    { [i \in 1..Len(s) |-> s[p[i]]] : p \in Permutations(1..Len(s)) }

RangesOf(ms) == [i \in 1..Len(ms) |-> hsv_ranges[ms[i]]]

\* C2: combine_masks returns the same mask for every order of a non-empty
\* list of ColorMasks that each hold a range.
C2_CombineOrderIndependent ==
    (/\ Returned("combine_masks")
     /\ Len(call.masks) >= 1
     /\ \A i \in 1..Len(call.masks) : Len(hsv_ranges[call.masks[i]]) >= 1) =>
        /\ err = NoErr
        /\ \A p \in Reorderings(call.masks) :
             combine_masks(RangesOf(p), call.image) = Ok(ret)

\* combine_masks returned for two ColorMasks whose own masks differ and are
\* both non-zero somewhere
C2_Witness ==
    /\ Returned("combine_masks")
    /\ err = NoErr
    /\ Len(call.masks) = 2
    /\ LET a == create_mask(hsv_ranges[call.masks[1]], call.image)
           b == create_mask(hsv_ranges[call.masks[2]], call.image)
       IN  /\ a.err = NoErr /\ b.err = NoErr
           /\ a.val # b.val
           /\ a.val # ret /\ b.val # ret

WellFormedPair(rng) ==
    /\ Len(rng) = 2
    /\ \A i \in 1..2 : rng[i].kind = "ndarray" /\ rng[i].shape = <<3>>

Ordered(rng) == \A k \in 1..3 : rng[1].data[k] <= rng[2].data[k]

\* C3 as stated: every stored pair has both bounds, each of 3 components, and
\* lower <= upper in every component.
C3_StoredPairsOrdered ==
    \A m \in MaskNames : \A i \in 1..Len(hsv_ranges[m]) :
        WellFormedPair(hsv_ranges[m][i]) /\ Ordered(hsv_ranges[m][i])

\* C3 (amended): after any add_hsv_range / += calls, failed or not, every
\* stored pair has both bounds and each bound is an array of 3 components;
\* lower <= upper is not enforced.
C3_StoredPairsWellFormed ==
    \A m \in MaskNames : \A i \in 1..Len(hsv_ranges[m]) :
        WellFormedPair(hsv_ranges[m][i])

\* a failed add_hsv_range has returned on a ColorMask that stores a pair with
\* lower above upper
C3_Witness ==
    /\ Returned("add_hsv_range")
    /\ err # NoErr
    /\ \E i \in 1..Len(hsv_ranges[call.self]) : ~Ordered(hsv_ranges[call.self][i])

AddStep ==
    /\ pc = "idle"
    /\ pc' = "returned"
    /\ call'.op \in {"add_hsv_range", "__iadd__"}

ValidationError(e) == e.type \in {"ValueError", "TypeError"}

\* a 3-component integer vector
IsInt3Vector(b) == b.kind = "ndarray" /\ b.shape = <<3>> /\ b.dtype = "int64"

AddOutcome(malformed) ==
    AddStep =>
        /\ malformed => ValidationError(err')
        /\ err' # NoErr => hsv_ranges' = hsv_ranges
        /\ err' = NoErr =>
             hsv_ranges' = [hsv_ranges EXCEPT
                              ![call'.self] = Append(@, call'.hsv_range)]

\* C4 as stated: add_hsv_range / += raise whenever the argument is not exactly
\* two bounds or a bound is not a 3-component integer vector; a failed call
\* leaves the stored ranges as they were, a successful one appends the pair.
C4_RejectsNonIntegerVectors ==
    [][AddOutcome(\/ Len(call'.hsv_range) # 2
                  \/ \E i \in 1..Len(call'.hsv_range) :
                        ~IsInt3Vector(call'.hsv_range[i]))]_vars

\* C4 (amended): add_hsv_range / += raise, in the call itself, whenever the
\* argument is not exactly two bounds or a bound is not an ndarray of shape
\* (3,) (the element type is not checked); a failed call leaves the stored
\* ranges as they were, a successful one appends exactly the given pair.
C4_RejectsMalformedPairs ==
    [][AddOutcome(~WellFormedPair(call'.hsv_range))]_vars

\* += has raised for a bound of the wrong shape on a ColorMask that already
\* stores a range
C4_Witness ==
    /\ Returned("__iadd__")
    /\ err = Raise("ValueError", 76, <<>>)
    /\ Len(hsv_ranges[call.self]) >= 1

\* C5: create_mask on a ColorMask with no ranges raises a validation error
\* for every image and returns no mask.
C5_EmptyColorMaskFails ==
    (Returned("create_mask") /\ Len(hsv_ranges[call.self]) = 0) =>
        /\ ValidationError(err)
        /\ ret = NoValue

\* create_mask has raised on a ColorMask with no ranges while the other
\* ColorMask holds one
C5_Witness ==
    /\ Returned("create_mask")
    /\ hsv_ranges[call.self] = <<>>
    /\ err.type = "ValueError"
    /\ \E m \in MaskNames : Len(hsv_ranges[m]) >= 1

\* C6: combine_masks raises a validation error for an empty list and for a
\* list in which any ColorMask, at any position, has no ranges; no mask is
\* returned.
C6_CombineFailsOnEmpty ==
    (/\ Returned("combine_masks")
     /\ \/ Len(call.masks) = 0
        \/ \E i \in 1..Len(call.masks) : Len(hsv_ranges[call.masks[i]]) = 0) =>
        /\ ValidationError(err)
        /\ ret = NoValue

\* combine_masks has raised for a list whose first ColorMask holds a range
\* and whose last one holds none
C6_Witness ==
    /\ Returned("combine_masks")
    /\ Len(call.masks) >= 2
    /\ Len(hsv_ranges[call.masks[1]]) >= 1
    /\ Len(hsv_ranges[call.masks[Len(call.masks)]]) = 0
    /\ err.type = "ValueError"
    /\ ret = NoValue

-----------------------------------------------------------------------------
(* apply_mask *)

\* the largest height and width of the arrays handed to apply_mask in the model
MaxDim == 2

\* a faulty variant: the mask is not handed on
bitwise_and_unmasked(src1, src2, mask) ==
    Image3([r \in 1..src1.shape[1] |->
              [c \in 1..src1.shape[2] |->
                 [k \in 1..3 |-> BitAnd(src1.data[r][c][k], src2.data[r][c][k])]]])

\* cv2.bitwise_and(src1, src2, mask=mask) without dst: a new array, zeroed,
\* that takes src1 & src2 where the mask is not 0
bitwise_and(src1, src2, mask) ==
    Image3([r \in 1..src1.shape[1] |->
              [c \in 1..src1.shape[2] |->
                 IF mask.data[r][c] # 0
                 THEN [k \in 1..3 |-> BitAnd(src1.data[r][c][k], src2.data[r][c][k])]
                 ELSE <<0, 0, 0>>]])

\* a faulty variant: the shapes are not compared and cv2.bitwise_and fails
apply_mask_unchecked(img, mask) ==
    IF img = None \/ size(img) = 0
    THEN [err |-> Raise("ValueError", 168, <<>>), val |-> NoValue, calls |-> <<>>]
    ELSE IF mask = None \/ size(mask) = 0
    THEN [err |-> Raise("ValueError", 171, <<>>), val |-> NoValue, calls |-> <<>>]
    ELSE IF Shape2(img) # Shape2(mask)
    THEN [err |-> Raise("cv2.error", 180, <<>>), val |-> NoValue,
          calls |-> <<"cv2.bitwise_and">>]
    ELSE [err |-> NoErr, val |-> bitwise_and(img, img, mask),
          calls |-> <<"cv2.bitwise_and">>]

\* apply_mask: what it returns or raises, and the library calls it makes
apply_mask(img, mask) ==
    IF img = None \/ size(img) = 0
    THEN [err |-> Raise("ValueError", 168, <<>>), val |-> NoValue, calls |-> <<>>]
    ELSE IF mask = None \/ size(mask) = 0
    THEN [err |-> Raise("ValueError", 171, <<>>), val |-> NoValue, calls |-> <<>>]
    ELSE IF Shape2(img) # Shape2(mask)
    THEN [err |-> Raise("ValueError", 174, <<Shape2(img), Shape2(mask)>>),
          val |-> NoValue, calls |-> <<>>]
    ELSE [err |-> NoErr, val |-> bitwise_and(img, img, mask),
          calls |-> <<"cv2.bitwise_and">>]

\* BGR pixels the images are painted with, in turn
Palette == << <<255, 0, 0>>, <<0, 0, 255>>, <<12, 200, 99>>, <<0, 0, 0>>, <<1, 2, 4>> >>

\* the image of h rows and w columns painted with the palette, from pixel `from`
Painted(h, w, from) ==
    Image3([r \in 1..h |->
              [c \in 1..w |-> Palette[((from + (r - 1) * w + c - 1) % Len(Palette)) + 1]]])

\* image_bgr arguments: None, an empty array, images of every shape
BgrInputs ==
    {None, Image3(<<>>)}
        \cup { Painted(h, w, from) : h \in 1..MaxDim, w \in 1..MaxDim, from \in {0, 2} }

\* the single-channel arrays of h rows and w columns with values in vals
MasksOf(h, w, vals) ==
    { Image1(rows) : rows \in [1..h -> [1..w -> vals]] }

\* mask arguments: None, an empty array, every binary mask of every shape,
\* and masks with values other than 0 and 255
MaskInputs ==
    {None, Image1(<<>>)}
        \cup UNION { MasksOf(h, w, {0, 255}) : h \in 1..MaxDim, w \in 1..MaxDim }
        \cup MasksOf(1, 2, {1, 128})

InitApply ==
    /\ hsv_ranges = [m \in MaskNames |-> <<>>]
    /\ pc = "idle"
    /\ call = NoCall
    /\ ret = NoValue
    /\ err = NoErr
    /\ image_bgr \in BgrInputs
    /\ image_hsv = None /\ combined_mask = None /\ result = None
    /\ argv = <<>> /\ fs = <<>> /\ trace = <<>>

\* apply_mask(image_bgr, mask)
ApplyMask(mask) ==
    LET out == apply_mask(image_bgr, mask) IN
    /\ pc = "idle"
    /\ call' = [NoCall EXCEPT !.op = "apply_mask", !.image = image_bgr, !.mask = mask]
    /\ ret' = out.val
    /\ err' = out.err
    /\ trace' = out.calls
    /\ pc' = "returned"
    /\ UNCHANGED <<hsv_ranges, image_bgr, image_hsv, combined_mask, result, argv, fs>>

NextApply ==
    \/ \E mask \in MaskInputs : ApplyMask(mask)
    \/ Return

SpecApply == InitApply /\ [][NextApply]_vars

-----------------------------------------------------------------------------
(* Properties of apply_mask (checked under SpecApply) *)

Present(a) == a # None /\ size(a) > 0

\* C7: for a non-empty image and a single-channel mask of the same height and
\* width, apply_mask returns a new array of the image's shape whose pixels are
\* the image's where the mask is selected (255) and all-zero where the mask is
\* 0, and the image itself is left as it was; so an all-selected mask returns
\* the image and an all-zero mask an all-zero image of the same shape.
C7_ApplyMaskKeepsSelectedPixels ==
    (/\ Returned("apply_mask")
     /\ Present(call.image) /\ Present(call.mask)
     /\ Shape2(call.image) = Shape2(call.mask)) =>
        LET img == call.image
            m == call.mask
            cells == (1..img.shape[1]) \X (1..img.shape[2])
        IN  /\ err = NoErr
            /\ ret.kind = "ndarray"
            /\ ret.shape = img.shape
            /\ ret.dtype = img.dtype
            /\ \A rc \in cells :
                 /\ m.data[rc[1]][rc[2]] = 255 => ret.data[rc[1]][rc[2]] = img.data[rc[1]][rc[2]]
                 /\ m.data[rc[1]][rc[2]] = 0 => ret.data[rc[1]][rc[2]] = <<0, 0, 0>>
            /\ image_bgr = img
            /\ (\A rc \in cells : m.data[rc[1]][rc[2]] = 255) => ret = img
            /\ (\A rc \in cells : m.data[rc[1]][rc[2]] = 0) =>
                 ret = Image3([r \in 1..img.shape[1] |->
                                 [c \in 1..img.shape[2] |-> <<0, 0, 0>>]])

\* apply_mask returned for a mask that selects one pixel with a colour and
\* leaves another pixel with a colour out
C7_Witness ==
    /\ Returned("apply_mask")
    /\ err = NoErr
    /\ \E r \in 1..call.image.shape[1], c \in 1..call.image.shape[2] :
         /\ call.mask.data[r][c] = 255
         /\ ret.data[r][c] = call.image.data[r][c]
         /\ ret.data[r][c] # <<0, 0, 0>>
    /\ \E r \in 1..call.image.shape[1], c \in 1..call.image.shape[2] :
         /\ call.mask.data[r][c] = 0
         /\ call.image.data[r][c] # <<0, 0, 0>>
         /\ ret.data[r][c] = <<0, 0, 0>>

\* C8: apply_mask raises a validation error, with no pixel computation and no
\* result, when the image is None or empty, the mask is None or empty, or
\* their heights or widths differ; for differing dimensions the error reports
\* both shapes.
C8_ApplyMaskValidatesFirst ==
    (/\ Returned("apply_mask")
     /\ \/ ~Present(call.image)
        \/ ~Present(call.mask)
        \/ Shape2(call.image) # Shape2(call.mask)) =>
        /\ ValidationError(err)
        /\ ret = NoValue
        /\ trace = <<>>
        /\ (Present(call.image) /\ Present(call.mask)) =>
             err.shapes = <<Shape2(call.image), Shape2(call.mask)>>

\* apply_mask has raised for an image and a mask with as many pixels but
\* another shape
C8_Witness ==
    /\ Returned("apply_mask")
    /\ Present(call.image) /\ Present(call.mask)
    /\ size(call.image) = 3 * size(call.mask)
    /\ Shape2(call.image) # Shape2(call.mask)
    /\ err.type = "ValueError"
    /\ err.shapes = <<Shape2(call.image), Shape2(call.mask)>>

-----------------------------------------------------------------------------
(* cv2.cvtColor for 8-bit images, hue in 0..179 *)

\* n/d rounded to the nearest integer; an exact half goes down (tie = 0) or
\* up (tie = 1)
RoundDiv(n, d, tie) ==
    LET q == n \div d
        r == n % d
    IN  IF 2 * r < d THEN q
        ELSE IF 2 * r > d THEN q + 1
        ELSE q + tie

\* the order (b, g, r) in which a sector of the hue circle takes the four
\* candidate values tab[0..3] (here 1..4)
SectorData ==
    << <<2, 4, 1>>, <<2, 1, 3>>, <<4, 1, 2>>, <<1, 3, 2>>, <<1, 2, 4>>, <<3, 2, 1>> >>

\* COLOR_HSV2BGR of one pixel: the sector is h/30, f its fractional part;
\* tab = v, v(1-s), v(1-sf), v(1-s(1-f)), scaled to 0..255 and rounded.  The
\* library computes in floating point, where an exact half may round either
\* way: `tie` is the way it goes.
HSV2BGR(px, tie) ==
    LET sector == (px[1] \div 30) % 6
        k == px[1] % 30
        tab == << px[3],
                  RoundDiv(px[3] * (255 - px[2]), 255, tie),
                  RoundDiv(px[3] * (7650 - px[2] * k), 7650, tie),
                  RoundDiv(px[3] * (7650 - px[2] * (30 - k)), 7650, tie) >>
        sd == SectorData[sector + 1]
    IN  IF px[2] = 0 THEN <<px[3], px[3], px[3]>>
        ELSE <<tab[sd[1]], tab[sd[2]], tab[sd[3]]>>

\* the fixed-point tables of COLOR_BGR2HSV (12 fractional bits)
sdiv_table(i) == IF i = 0 THEN 0 ELSE RoundDiv(255 * 4096, i, 0)
hdiv_table180(i) == IF i = 0 THEN 0 ELSE RoundDiv(180 * 4096, 6 * i, 0)

Max3(a, b, c) == IF a >= b /\ a >= c THEN a ELSE IF b >= c THEN b ELSE c
Min3(a, b, c) == IF a <= b /\ a <= c THEN a ELSE IF b <= c THEN b ELSE c

\* x >> 12 of a signed integer
Shr12(x) == (x - (x % 4096)) \div 4096

\* COLOR_BGR2HSV of one pixel
BGR2HSV(px) ==
    LET b == px[1]
        g == px[2]
        r == px[3]
        v == Max3(b, g, r)
        diff == v - Min3(b, g, r)
        s == Shr12(diff * sdiv_table(v) + 2048)
        h0 == IF v = r THEN g - b
              ELSE IF v = g THEN b - r + 2 * diff
              ELSE r - g + 4 * diff
        h1 == Shr12(h0 * hdiv_table180(diff) + 2048)
        h == IF h1 < 0 THEN h1 + 180 ELSE h1
    IN  <<h, s, v>>

\* cv2.cvtColor(img, code): the conversion of every pixel
cvtColor_HSV2BGR(img, tie) ==
    Image3([r \in 1..img.shape[1] |->
              [c \in 1..img.shape[2] |-> HSV2BGR(img.data[r][c], tie)]])

cvtColor_BGR2HSV(img) ==
    Image3([r \in 1..img.shape[1] |->
              [c \in 1..img.shape[2] |-> BGR2HSV(img.data[r][c])]])

-----------------------------------------------------------------------------
(* The synthetic hue gradient and the pipeline of example_synthetic *)

\* the widest and the highest gradient of the model, besides the two sizes
\* the program names
MaxWidth == 12
MaxHeight == 2

\* the sizes of the program: the defaults of create_hue_gradient_numpy and
\* the arguments example_synthetic passes
DefaultWidth == 360
DefaultHeight == 100
SyntheticWidth == 720
SyntheticHeight == 200

\* np.linspace(0, 179, width, dtype=np.uint8): column x (from 0) holds
\* x * 179/(width-1), truncated; one column holds 0
linspace_hue(width) ==
    [c \in 1..width |-> IF width = 1 THEN 0 ELSE ((c - 1) * 179) \div (width - 1)]

\* the HSV image of lines 281-287: the hues in every row, S = V = 255
hue_gradient_hsv(width, height) ==
    LET hues == linspace_hue(width)
    IN  Image3([r \in 1..height |-> [c \in 1..width |-> <<hues[c], 255, 255>>]])

\* create_hue_gradient_numpy
create_hue_gradient_numpy(width, height, tie) ==
    cvtColor_HSV2BGR(hue_gradient_hsv(width, height), tie)

\* a faulty variant: the range past hue 170 is missing
create_red_mask_one_range == add_hsv_range(<<>>, RED_1).ranges

\* create_red_mask: the ranges of the ColorMask it returns
create_red_mask == add_hsv_range(add_hsv_range(<<>>, RED_1).ranges, RED_2).ranges

\* create_blue_mask
create_blue_mask == add_hsv_range(<<>>, BLUE_1).ranges

GradientSizes ==
    ((1..MaxWidth) \X (1..MaxHeight))
        \cup {<<DefaultWidth, DefaultHeight>>, <<SyntheticWidth, SyntheticHeight>>}

InitGradient ==
    /\ hsv_ranges = [m \in MaskNames |-> <<>>]
    /\ pc = "example_synthetic"
    /\ \E wh \in GradientSizes :
         call = [NoCall EXCEPT !.op = "example_synthetic",
                               !.width = wh[1], !.height = wh[2]]
    /\ ret = NoValue
    /\ err = NoErr
    /\ image_bgr = None /\ image_hsv = None /\ combined_mask = None /\ result = None
    /\ argv = <<>> /\ fs = <<>> /\ trace = <<>>

\* line 295: img_bgr = create_hue_gradient_numpy(width, height)
GradientCreate ==
    /\ pc = "example_synthetic"
    /\ \E tie \in {0, 1} :
         image_bgr' = create_hue_gradient_numpy(call.width, call.height, tie)
    /\ trace' = Append(trace, "create_hue_gradient_numpy")
    /\ pc' = "cvtColor"
    /\ UNCHANGED <<hsv_ranges, call, ret, err, image_hsv, combined_mask, result, argv, fs>>

\* lines 296 and 237: img_hsv = cv2.cvtColor(img_bgr, cv2.COLOR_BGR2HSV)
GradientToHsv ==
    /\ pc = "cvtColor"
    /\ image_hsv' = cvtColor_BGR2HSV(image_bgr)
    /\ trace' = Append(trace, "cv2.cvtColor")
    /\ pc' = "create_masks"
    /\ UNCHANGED <<hsv_ranges, call, ret, err, image_bgr, combined_mask, result, argv, fs>>

\* lines 298-300 and 239-241: the red and the blue ColorMask
GradientMasks ==
    /\ pc = "create_masks"
    /\ hsv_ranges' = [m \in MaskNames |->
                        IF m = "red" THEN create_red_mask ELSE create_blue_mask]
    /\ pc' = "combine_masks"
    /\ UNCHANGED <<call, ret, err, image_bgr, image_hsv, combined_mask, result,
                   argv, fs, trace>>

\* lines 302 and 243: combined_mask = combine_masks([mask_red, mask_blue], img_hsv)
GradientCombine ==
    LET out == combine_masks(<<hsv_ranges["red"], hsv_ranges["blue"]>>, image_hsv) IN
    /\ pc = "combine_masks"
    /\ combined_mask' = out.val
    /\ err' = out.err
    /\ pc' = IF out.err = NoErr THEN "apply_mask" ELSE "raised"
    /\ UNCHANGED <<hsv_ranges, call, ret, image_bgr, image_hsv, result, argv, fs, trace>>

\* lines 303 and 244: result = apply_mask(img_bgr, combined_mask)
GradientApply ==
    LET out == apply_mask(image_bgr, combined_mask) IN
    /\ pc = "apply_mask"
    /\ result' = out.val
    /\ err' = out.err
    /\ trace' = trace \o out.calls
    /\ pc' = IF out.err = NoErr THEN "show_result" ELSE "raised"
    /\ UNCHANGED <<hsv_ranges, call, ret, image_bgr, image_hsv, combined_mask, argv, fs>>

\* lines 305 and 246: show_result(img_bgr, combined_mask, result)
GradientShow ==
    /\ pc = "show_result"
    /\ trace' = Append(trace, "show_result")
    /\ pc' = "done"
    /\ UNCHANGED <<hsv_ranges, call, ret, err, image_bgr, image_hsv, combined_mask,
                   result, argv, fs>>

NextGradient ==
    \/ GradientCreate
    \/ GradientToHsv
    \/ GradientMasks
    \/ GradientCombine
    \/ GradientApply
    \/ GradientShow

SpecGradient == InitGradient /\ [][NextGradient]_vars

-----------------------------------------------------------------------------
(* Properties of the gradient pipeline (checked under SpecGradient) *)

InBands(hue) ==
    \/ 0 <= hue /\ hue <= 10
    \/ 170 <= hue /\ hue <= 179
    \/ 100 <= hue /\ hue <= 130

\* C9: on the image whose columns sweep hue 0..179 at saturation and value
\* 255, the red and the blue ColorMask combined select a pixel exactly when
\* its hue is in [0,10], [170,179] or [100,130]: both for the hue the
\* gradient was built with and for the hue of the image combine_masks gets.
C9_GradientSelectsRedAndBlueBands ==
    pc \in {"apply_mask", "show_result", "done"} =>
        LET built == hue_gradient_hsv(call.width, call.height)
        IN  /\ err = NoErr
            /\ combined_mask.shape = <<call.height, call.width>>
            /\ \A r \in 1..call.height, c \in 1..call.width :
                 /\ combined_mask.data[r][c] =
                      IF InBands(built.data[r][c][1]) THEN 255 ELSE 0
                 /\ combined_mask.data[r][c] =
                      IF InBands(image_hsv.data[r][c][1]) THEN 255 ELSE 0
                 /\ image_hsv.data[r][c][2] = 255
                 /\ image_hsv.data[r][c][3] = 255

\* the pipeline is through for a gradient that holds every hue next to a
\* band's edge, on both sides
C9_Witness ==
    /\ pc = "done"
    /\ \A hue \in {0, 10, 11, 99, 100, 130, 131, 169, 170, 179} :
         \E c \in 1..call.width :
             /\ image_hsv.data[1][c][1] = hue
             /\ combined_mask.data[1][c] = IF InBands(hue) THEN 255 ELSE 0

-----------------------------------------------------------------------------
(* The command line (lines 308-330) and main_process_file *)

\* the values given to --file
Paths == {"", "photo.png", "notes.txt", "missing.png", "scans/page.jpg"}

\* what a path may hold when the script looks
FileKinds == {"absent", "directory", "image", "not_an_image"}

\* what cv2.imread decodes from an image file
DecodedImages == {Painted(1, 1, 1), Painted(2, 2, 0), Painted(1, 3, 2)}

\* a command line: whether --example_synthetic is there, whether --file is,
\* and the value of --file
ArgvInputs ==
    { [example_synthetic |-> e, file_given |-> FALSE, file |-> ""] : e \in BOOLEAN }
        \cup { [example_synthetic |-> e, file_given |-> TRUE, file |-> f] :
                 e \in BOOLEAN, f \in Paths }

InitCli ==
    /\ hsv_ranges = [m \in MaskNames |-> <<>>]
    /\ pc = "parse_args"
    /\ call = NoCall
    /\ ret = NoValue
    /\ err = NoErr
    /\ image_bgr = None /\ image_hsv = None /\ combined_mask = None /\ result = None
    /\ argv \in ArgvInputs
    /\ fs = <<>>
    /\ trace = <<>>

\* line 325: parser.parse_args() with the required mutually exclusive group
\* of line 313: both options, or neither, is a usage error (exit status 2)
ParseArgs ==
    /\ pc = "parse_args"
    /\ IF argv.example_synthetic = argv.file_given
       THEN /\ err' = Raise("SystemExit", 325, <<2>>)
            /\ pc' = "exit"
       ELSE /\ err' = NoErr
            /\ pc' = "dispatch"
    /\ UNCHANGED <<hsv_ranges, call, ret, image_bgr, image_hsv, combined_mask,
                   result, argv, fs, trace>>

\* args.file: None when --file is not given
ArgsFileTruthy(a) == a.file_given /\ a.file # ""

\* lines 327-330: if args.example_synthetic: ... elif args.file: ...
Dispatch ==
    /\ pc = "dispatch"
    /\ IF argv.example_synthetic
       THEN /\ pc' = "example_synthetic"
            /\ call' = [NoCall EXCEPT !.op = "example_synthetic",
                                      !.width = SyntheticWidth,
                                      !.height = SyntheticHeight]
            /\ trace' = Append(trace, "example_synthetic")
       ELSE IF ArgsFileTruthy(argv)
       THEN /\ pc' = "main_process_file"
            /\ call' = [NoCall EXCEPT !.op = "main_process_file"]
            /\ trace' = Append(trace, "main_process_file")
       ELSE /\ pc' = "exit"
            /\ UNCHANGED <<call, trace>>
    /\ UNCHANGED <<hsv_ranges, ret, err, image_bgr, image_hsv, combined_mask,
                   result, argv, fs>>

\* lines 231-232: os.path.isfile(img_path); the path holds one of FileKinds
FileIsFile ==
    /\ pc = "main_process_file"
    /\ \E kind \in FileKinds :
         /\ fs' = <<kind>>
         /\ IF kind \in {"image", "not_an_image"}
            THEN err' = NoErr /\ pc' = "imread"
            ELSE err' = Raise("FileNotFoundError", 232, <<>>) /\ pc' = "raised"
    /\ trace' = Append(trace, "os.path.isfile")
    /\ UNCHANGED <<hsv_ranges, call, ret, image_bgr, image_hsv, combined_mask,
                   result, argv>>

\* lines 234-236: cv2.imread returns None for a file it cannot decode
FileImread ==
    /\ pc = "imread"
    /\ IF fs = <<"image">>
       THEN /\ image_bgr' \in DecodedImages
            /\ err' = NoErr
            /\ pc' = "cvtColor"
       ELSE /\ image_bgr' = None
            /\ err' = Raise("ValueError", 236, <<>>)
            /\ pc' = "raised"
    /\ trace' = Append(trace, "cv2.imread")
    /\ UNCHANGED <<hsv_ranges, call, ret, image_hsv, combined_mask, result, argv, fs>>

NextCli ==
    \/ ParseArgs
    \/ Dispatch
    \/ FileIsFile
    \/ FileImread
    \/ GradientCreate
    \/ GradientToHsv
    \/ GradientMasks
    \/ GradientCombine
    \/ GradientApply
    \/ GradientShow

SpecCli == InitCli /\ [][NextCli]_vars

-----------------------------------------------------------------------------
(* Properties of the command line (checked under SpecCli) *)

\* the script has ended: normally, by a usage error or by an exception
Ended == pc \in {"done", "exit", "raised"}

\* the pipelines entered so far
PipelinesRun == SelectSeq(trace, LAMBDA e : e \in {"example_synthetic", "main_process_file"})

\* C10: a command line with neither or both of --example_synthetic and --file
\* is a usage error before any pipeline logic; every other command line runs
\* exactly one pipeline, example_synthetic for --example_synthetic and
\* main_process_file(path) for --file path, whatever the path; and in file
\* mode a path that does not exist fails before any decode attempt.
C10_ExactlyOnePipelinePerInvocation ==
    /\ (pc # "parse_args" /\ argv.example_synthetic = argv.file_given) =>
          /\ pc = "exit"
          /\ err.type = "SystemExit"
          /\ trace = <<>>
    /\ (Ended /\ argv.example_synthetic /\ ~argv.file_given) =>
          PipelinesRun = <<"example_synthetic">>
    /\ (Ended /\ argv.file_given /\ ~argv.example_synthetic) =>
          PipelinesRun = <<"main_process_file">>
    /\ (Ended /\ fs \in {<<"absent">>, <<"directory">>}) =>
          /\ err.type = "FileNotFoundError"
          /\ \A i \in 1..Len(trace) : trace[i] # "cv2.imread"

====
